---- MODULE Spec2Model ----
(***************************************************************************)
(* Forecasting pipeline of the "Forecasting Penjualan Kaos" dashboard      *)
(* (src/main.py): the memoized CSV loader, the memoized Holt-Winters       *)
(* engine and the script that the host reruns on every user interaction.   *)
(*                                                                         *)
(* Numbers.  A float is kept as its class and its decimal order of         *)
(* magnitude: Pos(e) stands for 10^e, Neg(e) for -10^e; a product of       *)
(* powers of ten adds exponents, and a result whose exponent leaves the    *)
(* float64 range is inf (or 0).  A timestamp is a calendar date            *)
(* [m |-> month number, d |-> day of month].                               *)
(***************************************************************************)
EXTENDS Integers, Sequences, FiniteSets, TLC

\* ------------------------------------------------------------------ bounds
\* longest data file the model writes, in rows
MaxLen == 25
\* month number of the first row of a data file
StartMonth == 3
\* order of magnitude of the values of a flat sales history (10^2 units)
FlatExp == 2
\* a steep history starts at 10^-LowExp and grows by 10^SteepGrowth a month
LowExp == 150
SteepGrowth == 11
\* how many times a data file is rewritten while the application is up
MaxWrites == 1
\* how many times the engine body runs again on a (series content, horizon)
\* it ran on before
MaxRefits == 1
\* row counts of the data files: up to ShortLen, and from three rows under
\* two seasonal cycles up to MaxLen
ShortLen == 2
\* how many times the user of the one browser session moves a widget or
\* presses a button, and how many times the users of two sessions do, in all
MaxRequests == 2
MaxSharedRequests == 3

\* ------------------------------------------------------- program constants
Period == 12
MinHorizon == 1
MaxHorizon == 36
DefaultHorizon == 12
\* largest decimal exponent of a finite float64, the type of forecast values
FloatMaxExp == 308
\* smallest decimal exponent whose power of ten is a non-zero float64
\* (10^-323 is subnormal, 10^-324 is 0.0)
FloatMinExp == 323

\* ------------------------------------------------------------------ values
NaN == [cls |-> "nan", exp |-> 0]
Inf == [cls |-> "inf", exp |-> 0]
Zero == [cls |-> "zero", exp |-> 0]
Pos(e) == [cls |-> "pos", exp |-> e]
Neg(e) == [cls |-> "neg", exp |-> e]

IsNaN(v) == v.cls = "nan"
IsFinite(v) == v.cls \in {"pos", "zero", "neg"}
\* v > 0.0 as numpy evaluates it: False for NaN, True for +inf
GreaterThanZero(v) == v.cls \in {"pos", "inf"}

\* 10^e as a float64
Pow10(e) ==
    IF e > FloatMaxExp THEN Inf
    ELSE IF e < 0 - FloatMinExp THEN Zero
    ELSE Pos(e)

None == [none |-> TRUE]
Some(x) == [none |-> FALSE, val |-> x]

Date(m, d) == [m |-> m, d |-> d]
DateLess(a, b) == a.m < b.m \/ (a.m = b.m /\ a.d < b.d)

\* ---------------------------------------------------------- configuration
FILE_MAP ==
    [c \in {"Kaos Pendek Dewasa", "Kaos Panjang Dewasa", "Kaos T-Shirt Anak"} |->
        CASE c = "Kaos Pendek Dewasa" -> "pendek_dewasa_baru.csv"
          [] c = "Kaos Panjang Dewasa" -> "panjang_dewasa_baru.csv"
          [] c = "Kaos T-Shirt Anak" -> "tshirt_anak_baru.csv"]

Categories == DOMAIN FILE_MAP
Paths == {FILE_MAP[c] : c \in Categories}

\* the slider's minimum, default and maximum
Horizons == {MinHorizon, DefaultHorizon, MaxHorizon}

\* -------------------------------------------------------------- data files
\* A data file is described by its header, its number of rows, the growth of
\* its values and at most one defect at row pos; Rows expands it.
Num(v) == [numeric |-> TRUE, val |-> v]
Text == [numeric |-> FALSE, val |-> NaN]

MissingFile ==
    [state |-> "missing", header |-> <<>>, n |-> 0, growth |-> 0,
     defect |-> "none", pos |-> 0]
UnreadableFile == [MissingFile EXCEPT !.state = "unreadable"]
DataFile(header, n, growth, defect, pos) ==
    [state |-> "ok", header |-> header, n |-> n, growth |-> growth,
     defect |-> defect, pos |-> pos]

StdHeader == <<"Date", "Sales">>
Headers == {StdHeader, <<"Sales", "Order Date">>, <<"Bulan", "Penjualan">>, <<"Date">>}
\* the column of a header that holds the calendar dates
TimeColumns == {"Date", "Order Date", "Bulan"}

CellDefects == {"text", "zero", "neg", "bump", "midmonth"}
RowDefects == {"dup", "moved", "drop"}
DefectPositions(n) == {1, (n + 1) \div 2, n} \cap (1..n)

BaseValue(growth, i) ==
    IF growth = 0 THEN Pos(FlatExp) ELSE Pos(growth * (i - 1) - LowExp)
BaseRow(f, i) ==
    [date |-> Date(StartMonth + i - 1, 1), cell |-> Num(BaseValue(f.growth, i))]
Damaged(row, kind) ==
    CASE kind \in {"text", "alltext"} -> [row EXCEPT !.cell = Text]
      [] kind = "zero" -> [row EXCEPT !.cell = Num(Zero)]
      [] kind = "neg" -> [row EXCEPT !.cell = Num(Neg(row.cell.val.exp))]
      [] kind = "bump" -> [row EXCEPT !.cell = Num(Pos(row.cell.val.exp + 1))]
      [] kind = "midmonth" -> [row EXCEPT !.date = Date(row.date.m, 15)]
      [] OTHER -> row
Remove(s, p) == SubSeq(s, 1, p - 1) \o SubSeq(s, p + 1, Len(s))
Rows(f) ==
    LET base == [i \in 1..f.n |->
                    IF f.defect = "alltext" \/ (f.defect \in CellDefects /\ i = f.pos)
                    THEN Damaged(BaseRow(f, i), f.defect)
                    ELSE BaseRow(f, i)]
    IN  CASE f.defect = "dup" -> Append(base, base[f.pos])
          [] f.defect = "moved" -> Append(Remove(base, f.pos), base[f.pos])
          [] f.defect = "drop" -> Remove(base, f.pos)
          [] OTHER -> base

Lengths == {n \in 0..MaxLen : n <= ShortLen \/ n >= 2 * Period - 3}
AllFiles ==
    {MissingFile, UnreadableFile}
    \cup {DataFile(h, n, 0, "none", 0) : h \in Headers, n \in Lengths}
    \cup {DataFile(StdHeader, n, SteepGrowth, "none", 0) : n \in Lengths \ {0}}
    \cup {DataFile(StdHeader, n, 0, "alltext", 0) : n \in Lengths \ {0}}
    \cup UNION {{DataFile(StdHeader, n, 0, k, p) :
                    k \in CellDefects \cup RowDefects, p \in DefectPositions(n)} :
                n \in Lengths \ {0}}

\* ----------------------------------------------------------------- loader
\* pd.read_csv of a readable file: the table, one entry per column and row
ReadCsv(f) ==
    LET rows == Rows(f)
        cols == {f.header[j] : j \in 1..Len(f.header)}
    IN  [columns |-> f.header,
         rows |-> [i \in 1..Len(rows) |->
                     [c \in cols |-> IF c \in TimeColumns THEN rows[i].date
                                     ELSE rows[i].cell]]]

\* 'date' in col.lower()
ContainsDate(col) == col \in {"Date", "Order Date"}
DateCols(df) == LET T(c) == ContainsDate(c) IN SelectSeq(df.columns, T)
ValueCols(df, date_col) == LET T(c) == c # date_col IN SelectSeq(df.columns, T)

\* pd.to_numeric(..., errors='coerce') of one cell
ToNumeric(cell) == IF cell.numeric THEN cell.val ELSE NaN
\* df.set_index(date_col) and the coerced value column
Indexed(df, date_col, value_col) ==
    [i \in 1..Len(df.rows) |->
        [idx |-> df.rows[i][date_col], v |-> ToNumeric(df.rows[i][value_col])]]
DropNa(s) == LET T(r) == ~IsNaN(r.v) IN SelectSeq(s, T)

HasDuplicates(s) ==
    \E i, j \in 1..Len(s) : i # j /\ s[i].idx = s[j].idx
MinIdx(s) ==
    s[CHOOSE i \in 1..Len(s) : \A j \in 1..Len(s) : ~DateLess(s[j].idx, s[i].idx)].idx
MaxIdx(s) ==
    s[CHOOSE i \in 1..Len(s) : \A j \in 1..Len(s) : ~DateLess(s[i].idx, s[j].idx)].idx
\* pd.date_range(lo, hi, freq='MS'): the month starts in [lo, hi]
DateRange(lo, hi) ==
    LET first == IF lo.d = 1 THEN lo.m ELSE lo.m + 1
        count == IF hi.m - first + 1 > 0 THEN hi.m - first + 1 ELSE 0
    IN  [k \in 1..count |-> Date(first + k - 1, 1)]
\* s.reindex(dti): the value at each new label, NaN where s has none
Reindex(s, dti) ==
    [k \in 1..Len(dti) |->
        [idx |-> dti[k],
         v |-> IF \E i \in 1..Len(s) : s[i].idx = dti[k]
               THEN s[CHOOSE i \in 1..Len(s) : s[i].idx = dti[k]].v
               ELSE NaN]]
\* faulty variant of AsFreq: the series is returned as it was indexed
AsFreqKeep(s) == [raised |-> FALSE, data |-> s]
\* series.asfreq('MS'); reindexing an index with duplicate labels raises
AsFreq(s) ==
    IF s = <<>> THEN [raised |-> FALSE, data |-> <<>>]
    ELSE IF HasDuplicates(s) THEN [raised |-> TRUE, data |-> <<>>]
    ELSE [raised |-> FALSE, data |-> Reindex(s, DateRange(MinIdx(s), MaxIdx(s)))]

\* pd.Series()
EmptySeries == [name |-> "", data |-> <<>>]
Empty(series) == series.data = <<>>

Returned(series, msgs) ==
    [status |-> "returned", series |-> series, exc |-> "", msgs |-> msgs]
Raised(exc) ==
    [status |-> "raised", series |-> EmptySeries, exc |-> exc, msgs |-> {}]

\* lines 54-58: coerce, drop, resample, report and rename
LoadSeries(series, category_name) ==
    IF series.raised THEN Raised("ValueError")
    ELSE Returned([name |-> category_name, data |-> series.data],
                  {"sidebar.success: berhasil dimuat"})
\* lines 49-55: the value column is the first column that is not the date column
LoadValues(df, date_col, value_cols, category_name) ==
    IF value_cols = <<>> THEN Raised("IndexError")
    ELSE LoadSeries(AsFreq(DropNa(Indexed(df, date_col, Head(value_cols)))),
                    category_name)
\* line 48: the date column is the first column whose name contains 'date'
LoadDated(df, date_cols, category_name) ==
    IF date_cols = <<>> THEN Raised("IndexError")
    ELSE LoadValues(df, Head(date_cols), ValueCols(df, Head(date_cols)), category_name)
LoadTable(df, category_name) == LoadDated(df, DateCols(df), category_name)

\* the body of load_and_preprocess_data on the file's content f
load_and_preprocess_data(f, category_name) ==
    IF f.state = "missing" THEN Returned(EmptySeries, {"error: TIDAK DITEMUKAN"})
    ELSE IF f.state = "unreadable" THEN Returned(EmptySeries, {"error: memuat data"})
    ELSE LoadTable(ReadCsv(f), category_name)

\* ----------------------------------------------------------------- engine
Nobs(series) == Len(series.data)
\* np.all(endog > 0.0)
AllPositive(series) ==
    \A i \in 1..Nobs(series) : GreaterThanZero(series.data[i].v)

\* the initial-state estimators: the text of the ValueError, "" when none
InitializeSimple(nobs) ==
    IF nobs < 2 * Period
    THEN "Cannot compute initial seasonals with less than two full seasonal cycles"
    ELSE ""
InitializeHeuristic(nobs) ==
    IF nobs < 2 * Period
    THEN "Cannot compute initial seasonals with less than two full seasonal cycles"
    ELSE ""
\* ExponentialSmoothing(series, seasonal_periods=12, trend="mul", seasonal="mul",
\* initialization_method="estimated"): the positivity check of a multiplicative
\* model comes first, then the initial states are estimated
ExponentialSmoothing(series) ==
    IF ~AllPositive(series)
    THEN "endog must be strictly positive"
    ELSE IF Nobs(series) < 10 + 2 * (Period \div 2)
         THEN InitializeSimple(Nobs(series))
         ELSE InitializeHeuristic(Nobs(series))

\* model.fit(): the smoothing state after the last observation, in orders of
\* magnitude: the level follows the last observation, the trend factor is the
\* mean growth per month, the seasonal factors are 10^0
Fit(series) ==
    LET n == Nobs(series)
        first == series.data[1].v.exp
        last == series.data[n].v.exp
    IN  [nobs |-> n,
         level |-> last,
         trend |-> (last - first) \div (n - 1),
         end |-> series.data[n].idx]

\* faulty variant of ForecastIndex: the forecast starts at the last observation
ForecastIndexFromEnd(end, h) == Date(end.m + h - 1, 1)
\* the timestamp of the h-th step after the last observation (freq MS)
ForecastIndex(end, h) == Date(end.m + h, 1)
\* model_fit.forecast(n_months): level * trend^h * seasonal, h = 1..n_months
Forecast(model_fit, n_months) ==
    [h \in 1..n_months |->
        [idx |-> ForecastIndex(model_fit.end, h),
         v |-> Pow10(model_fit.level + model_fit.trend * h)]]

FatalError(e) ==
    IF e = "endog must be strictly positive"
    THEN "error: FATAL ERROR: Gagal melatih model. Error: endog must be strictly positive"
    ELSE "error: FATAL ERROR: Gagal melatih model. Error: Cannot compute initial seasonals"

\* lines 75-80 on a model that was constructed
FitAndForecast(model_fit, n_months) ==
    [model_fit |-> Some(model_fit),
     forecast |-> Some(Forecast(model_fit, n_months)),
     msgs |-> {}]
\* lines 66-83 given the constructor's error e ("" when it raised nothing)
TryFit(series, n_months, e) ==
    IF e # ""
    THEN [model_fit |-> None, forecast |-> None, msgs |-> {FatalError(e)}]
    ELSE FitAndForecast(Fit(series), n_months)
\* the body of run_holt_winters_forecast
run_holt_winters_forecast(series, n_months) ==
    TryFit(series, n_months, ExponentialSmoothing(series))

\* ----------------------------------------------------------------- caches
\* st.cache_data: the key of a call of load_and_preprocess_data
DataKey(file_path, category_name) == <<file_path, category_name>>
\* faulty variant of ForecastKey: the horizon is left out of the key
ForecastKeySeriesOnly(series, n_months) ==
    <<[size |-> Len(series.data), rows |-> series.data], 0>>
\* st.cache_resource hashes a Series by its size, its index and its values,
\* not by its name
Fingerprint(series) == [size |-> Len(series.data), rows |-> series.data]
ForecastKey(series, n_months) == <<Fingerprint(series), n_months>>

Hit(cache, key) == \E e \in cache : e.key = key
Cached(cache, key) == (CHOOSE e \in cache : e.key = key).val
Store(cache, key, val) == cache \cup {[key |-> key, val |-> val]}

\* a call that missed the cache: a result that was returned is stored with the
\* messages it showed, an exception is not
Miss(cache, key, res) ==
    [res |-> res,
     cache |-> IF res.status = "returned" THEN Store(cache, key, res) ELSE cache,
     hit |-> FALSE]
\* the cached call of load_and_preprocess_data
CachedLoad(cache, file_path, category_name, f) ==
    IF Hit(cache, DataKey(file_path, category_name))
    THEN [res |-> Cached(cache, DataKey(file_path, category_name)),
          cache |-> cache, hit |-> TRUE]
    ELSE Miss(cache, DataKey(file_path, category_name),
              load_and_preprocess_data(f, category_name))

\* ------------------------------------------------------------------ state
Sessions == {"s1", "s2"}
\* the script runs of a session, in the order they start: the first run and
\* one more for every rerun request
MaxRuns == MaxSharedRequests + 1
Runs == Sessions \X (1..MaxRuns)

VARIABLES
    files,      \* path -> the content of the data file on disk
    writes,     \* how many times a data file was rewritten
    dataCache,  \* st.cache_data of load_and_preprocess_data
    fcCache,    \* st.cache_resource of run_holt_winters_forecast
    widgets,    \* session -> the values of the sidebar's selectbox and slider
    page,       \* session -> the widgets the browser shows
    cur,        \* session -> the number of its latest script run, 0 before the first
    left,       \* how many more rerun requests the browsers send
    pc,         \* run -> the call its script makes next
    run,        \* run -> the variables and the output of its script
    fitLog      \* (series content, horizon) -> how many times the engine body ran

vars ==
    <<files, writes, dataCache, fcCache, widgets, page, cur, left, pc, run,
      fitLog>>

DefaultCategory == "Kaos Pendek Dewasa"
\* the widgets of the page a rerun request can come from
Widgets == {"sidebar", "button", "download"}
\* the script of run t has ended, and nothing was requested since
Ended(t) == pc[t] \in {"done", "stopped", "crashed"}
\* A rerun request starts the next run of the session at once and asks the
\* running script to stop: every st.* call it makes from then on ends it.
\* Cut(t): a later run of the session of t has started
Cut(t) == cur[t[1]] > t[2]

NewRun ==
    [selected_category |-> DefaultCategory, forecast_months |-> DefaultHorizon,
     button |-> FALSE, series |-> EmptySeries, load |-> "", disk |-> MissingFile,
     invoked |-> FALSE, hit |-> FALSE, model_fit |-> None, forecast |-> None,
     ui |-> {}]

\* nothing is cached, no browser is connected, and the browsers will send
\* requests rerun requests
InitCommon(requests) ==
    /\ writes = 0
    /\ dataCache = {}
    /\ fcCache = {}
    /\ widgets = [s \in Sessions |->
                    [category |-> DefaultCategory, months |-> DefaultHorizon]]
    /\ page = [s \in Sessions |-> {}]
    /\ cur = [s \in Sessions |-> 0]
    /\ left = requests
    /\ pc = [t \in Runs |-> "new"]
    /\ run = [t \in Runs |-> NewRun]
    /\ fitLog = <<>>

\* one browser session, any data file behind the default category
Init ==
    /\ \E f \in AllFiles :
          files = [p \in Paths |-> IF p = FILE_MAP[DefaultCategory] THEN f
                                   ELSE MissingFile]
    /\ InitCommon(MaxRequests)

\* ----------------------------------------------------------------- script
\* The script is a sequence of blocks of st.* calls.  pc names the block the
\* run enters next; an element is in run.ui once every call of its block was
\* made.  A run that was asked to stop ends at the first call of its next
\* block.  Each cached call is wrapped in a spinner, which makes one st.*
\* call before the lookup and one after the call returned or raised.

\* run t goes on at block p with the variables r
Goto(t, p, r) ==
    /\ pc' = [pc EXCEPT ![t] = p]
    /\ run' = [run EXCEPT ![t] = r]
\* run t ends at the st.* call it was about to make: its thread is over and
\* its variables are gone
Interrupted(t) == Goto(t, "over", NewRun)
\* run t makes the calls of a block that shows element, and goes on at p
Show(t, element, p) ==
    IF Cut(t) THEN Interrupted(t)
    ELSE Goto(t, p, [run[t] EXCEPT !.ui = @ \cup {element}])
\* the script of a run that showed ui is over: the browser drops what an
\* earlier run had left on the page
Finish(s, ui) == page' = [page EXCEPT ![s] = ui \cap Widgets]

\* the next script run of session s starts; click tells whether the button
\* triggered it.  The run before it, if its script has ended, is forgotten
StartRun(s, click) ==
    /\ cur[s] < MaxRuns
    /\ cur' = [cur EXCEPT ![s] = @ + 1]
    /\ pc' = [t \in Runs |->
                IF t = <<s, cur[s] + 1>> THEN "start"
                ELSE IF t[1] = s /\ Ended(t) THEN "over"
                ELSE pc[t]]
    /\ run' = [t \in Runs |->
                 IF t = <<s, cur[s] + 1>> THEN [NewRun EXCEPT !.button = click]
                 ELSE IF t[1] = s /\ Ended(t) THEN NewRun
                 ELSE run[t]]

\* faulty variant of StopIfEmpty: the run goes on with an empty series
NeverStop(series) == FALSE
\* series.empty, the guard of st.stop()
StopIfEmpty(series) == Empty(series)

\* line 180 assigns the pair the engine call returned
Deliver(r, result) ==
    [pc |-> IF result.model_fit = None THEN "warning" ELSE "plot",
     run |-> [r EXCEPT !.model_fit = result.model_fit,
                       !.forecast = result.forecast]]

\* another run holds the lock of the key: it runs the engine body on it
InFlight(t, key) ==
    \E u \in Runs \ {t} :
        /\ pc[u] = "fitting"
        /\ ForecastKey(run[u].series, run[u].forecast_months) = key

Logged(log, args) == IF args \in DOMAIN log THEN log[args] ELSE 0
Count(log, args) == (args :> Logged(log, args) + 1) @@ log
RECURSIVE Total(_, _)
Total(log, keys) ==
    IF keys = {} THEN 0
    ELSE LET k == CHOOSE x \in keys : TRUE
         IN  log[k] + Total(log, keys \ {k})
\* the runs of the engine body on arguments it had run on before
Refits(log) == Total(log, DOMAIN log) - Cardinality(DOMAIN log)
\* the engine body may run on args
MayFit(log, args) == Logged(log, args) = 0 \/ Refits(log) < MaxRefits


\* A script that was asked to stop is one st.* call away from its end, unless
\* it is in the engine's body or waits for another run's fit; that call takes
\* no time next to a fit or a user.  Settled(s): every run of s that was
\* asked to stop has ended, is fitting or waits for a fit.  The next request
\* of the session and the first call of its next run come after that
Settled(s) ==
    \A u \in Runs :
        (u[1] = s /\ Cut(u)) => pc[u] \in {"over", "fitting", "waiting"}

\* ---------------------------------------------------------------- actions
\* a browser connects: the first run
Open(s) ==
    /\ cur[s] = 0
    /\ StartRun(s, FALSE)
    /\ UNCHANGED <<files, writes, dataCache, fcCache, widgets, page, fitLog,
                   left>>

\* the browser of s sends a rerun request: the next run starts at once, with
\* the widget values of the request, beside the run that is asked to stop
Request(s, click) ==
    /\ cur[s] > 0
    /\ Settled(s)
    /\ left > 0
    /\ left' = left - 1
    /\ StartRun(s, click)

\* the user picks another category in the selectbox
SelectCategory(s, c) ==
    /\ "sidebar" \in page[s]
    /\ c # widgets[s].category
    /\ widgets' = [widgets EXCEPT ![s].category = c]
    /\ Request(s, FALSE)
    /\ UNCHANGED <<files, writes, dataCache, fcCache, page, fitLog>>

\* the user moves the slider
SetHorizon(s, h) ==
    /\ "sidebar" \in page[s]
    /\ h # widgets[s].months
    /\ widgets' = [widgets EXCEPT ![s].months = h]
    /\ Request(s, FALSE)
    /\ UNCHANGED <<files, writes, dataCache, fcCache, page, fitLog>>

\* the user presses "Jalankan Forecasting"
ClickButton(s) ==
    /\ "button" \in page[s]
    /\ Request(s, TRUE)
    /\ UNCHANGED <<files, writes, dataCache, fcCache, widgets, page, fitLog>>

\* the user presses the download button: the script runs again, and its
\* st.button returns False
ClickDownload(s) ==
    /\ "download" \in page[s]
    /\ Request(s, FALSE)
    /\ UNCHANGED <<files, writes, dataCache, fcCache, widgets, page, fitLog>>

\* lines 10-103: the page head and the sidebar, whose widgets return the
\* values the browser holds
Sidebar(t) ==
    /\ pc[t] = "start"
    /\ Cut(t) \/ Settled(t[1])
    /\ IF Cut(t)
       THEN Interrupted(t) /\ UNCHANGED page
       ELSE /\ Goto(t, "load",
                    [run[t] EXCEPT !.selected_category = widgets[t[1]].category,
                                   !.forecast_months = widgets[t[1]].months,
                                   !.ui = @ \cup {"sidebar"}])
            /\ page' = [page EXCEPT ![t[1]] = @ \cup {"sidebar"}]
    /\ UNCHANGED <<files, writes, dataCache, fcCache, widgets, cur, fitLog,
                   left>>

\* line 107: the spinner's call before the cached loader is looked up
Load(t) ==
    /\ pc[t] = "load"
    /\ IF Cut(t) THEN Interrupted(t) ELSE Goto(t, "loading", run[t])
    /\ UNCHANGED <<files, writes, dataCache, fcCache, widgets, page, cur,
                   fitLog, left>>

\* line 107, given the outcome ld of the lookup or the body on the file f.
\* An exception leaves through the spinner's closing call, which ends a run
\* that was asked to stop; otherwise the script ends with the exception.  A
\* call that returns shows one message first (lines 41, 44, 57, or its replay
\* from the cache): a run that was asked to stop ends there, and nothing is
\* stored
Read(t, f, ld) ==
    IF Cut(t)
    THEN /\ Interrupted(t)
         /\ UNCHANGED <<page, dataCache>>
    ELSE IF ld.res.status = "raised"
    THEN /\ Goto(t, "crashed",
                 [run[t] EXCEPT !.load = "raised", !.disk = f,
                                !.ui = @ \cup {"exception"}])
         /\ Finish(t[1], run[t].ui)
         /\ UNCHANGED dataCache
    ELSE /\ Goto(t, "loaded",
                 [run[t] EXCEPT !.disk = f, !.ui = @ \cup ld.res.msgs])
         /\ dataCache' = ld.cache
         /\ UNCHANGED page
Loading(t) ==
    /\ pc[t] = "loading"
    /\ Read(t, files[FILE_MAP[run[t].selected_category]],
            CachedLoad(dataCache, FILE_MAP[run[t].selected_category],
                       run[t].selected_category,
                       files[FILE_MAP[run[t].selected_category]]))
    /\ UNCHANGED <<files, writes, fcCache, widgets, cur, fitLog, left>>

\* line 107: the spinner's closing call, then the assignment of the series
\* the call returned
Loaded(t) ==
    /\ pc[t] = "loaded"
    /\ IF Cut(t)
       THEN Interrupted(t)
       ELSE Goto(t, "check",
                 [run[t] EXCEPT
                    !.load = "returned",
                    !.series = Cached(dataCache,
                                      DataKey(FILE_MAP[run[t].selected_category],
                                              run[t].selected_category)).series])
    /\ UNCHANGED <<files, writes, dataCache, fcCache, widgets, page, cur,
                   fitLog, left>>

\* lines 109-174: an empty series is reported and the script stops; otherwise
\* the tabs, the dataset, the statistics, the history plot and the header of
\* the forecast tab
Check(t) ==
    /\ pc[t] = "check"
    /\ IF Cut(t)
       THEN Interrupted(t) /\ UNCHANGED page
       ELSE IF StopIfEmpty(run[t].series)
       THEN /\ Goto(t, "stopped",
                    [run[t] EXCEPT !.ui = @ \cup {"error: data historis kosong"}])
            /\ Finish(t[1], run[t].ui)
       ELSE /\ Goto(t, "button", [run[t] EXCEPT !.ui = @ \cup {"tabs"}])
            /\ UNCHANGED page
    /\ UNCHANGED <<files, writes, dataCache, fcCache, widgets, cur, fitLog,
                   left>>

\* line 177: the button, which returns whether it triggered this run
Button(t) ==
    /\ pc[t] = "button"
    /\ IF Cut(t)
       THEN Interrupted(t) /\ UNCHANGED page
       ELSE /\ Goto(t, IF run[t].button THEN "engine" ELSE "info",
                    [run[t] EXCEPT !.ui = @ \cup {"button"}])
            /\ page' = [page EXCEPT ![t[1]] = @ \cup {"button"}]
    /\ UNCHANGED <<files, writes, dataCache, fcCache, widgets, cur, fitLog,
                   left>>

\* lines 225-227: the hint of a run without a button press ends the script
Info(t) ==
    /\ pc[t] = "info"
    /\ Show(t, "info", "done")
    /\ IF Cut(t) THEN UNCHANGED page ELSE Finish(t[1], run[t].ui)
    /\ UNCHANGED <<files, writes, dataCache, fcCache, widgets, cur, fitLog,
                   left>>

\* line 180: the spinner's call, then the lookup of the cached engine.  A
\* stored pair is served; a key that another run is fitting is waited for;
\* otherwise the body runs
Engine(t) ==
    /\ pc[t] = "engine"
    /\ IF Cut(t)
       THEN Interrupted(t) /\ UNCHANGED fitLog
       ELSE IF Hit(fcCache, ForecastKey(run[t].series, run[t].forecast_months))
       THEN /\ Goto(t, "cached", [run[t] EXCEPT !.invoked = TRUE, !.hit = TRUE])
            /\ UNCHANGED fitLog
       ELSE IF InFlight(t, ForecastKey(run[t].series, run[t].forecast_months))
       THEN /\ Goto(t, "waiting", [run[t] EXCEPT !.invoked = TRUE])
            /\ UNCHANGED fitLog
       ELSE /\ MayFit(fitLog, <<run[t].series.data, run[t].forecast_months>>)
            /\ Goto(t, "fitting", [run[t] EXCEPT !.invoked = TRUE])
            /\ fitLog' = Count(fitLog, <<run[t].series.data, run[t].forecast_months>>)
    /\ UNCHANGED <<files, writes, dataCache, fcCache, widgets, page, cur,
                   left>>

\* the engine call of run t leaves with result.  A failure shows its message
\* first (line 82, or its replay from the cache): a run that was asked to
\* stop ends there
Leave(t, result) ==
    IF result.model_fit = None /\ Cut(t)
    THEN Interrupted(t)
    ELSE Goto(t, "returned", [run[t] EXCEPT !.ui = @ \cup result.msgs])

\* a stored pair is served, with the message that was shown when it was
\* computed
Served(t) ==
    /\ pc[t] = "cached"
    /\ Leave(t, Cached(fcCache, ForecastKey(run[t].series, run[t].forecast_months)))
    /\ UNCHANGED <<files, writes, dataCache, fcCache, widgets, page, cur,
                   fitLog, left>>

\* the engine body of run t ends.  A failure that ends the run at its message
\* returns nothing and nothing is stored.  Otherwise the result is stored
\* under the key of the call
FitDone(t, result) ==
    /\ fcCache' = IF result.model_fit = None /\ Cut(t)
                  THEN fcCache
                  ELSE Store(fcCache,
                             ForecastKey(run[t].series, run[t].forecast_months),
                             result)
    /\ Leave(t, result)
FitEnd(t) ==
    /\ pc[t] = "fitting"
    /\ FitDone(t, run_holt_winters_forecast(run[t].series, run[t].forecast_months))
    /\ UNCHANGED <<files, writes, dataCache, widgets, page, cur, fitLog, left>>

\* run t waited for another run's fit of the same key: it looks the key up
\* again, and fits itself when the result is not there
FitWait(t) ==
    /\ pc[t] = "waiting"
    /\ ~InFlight(t, ForecastKey(run[t].series, run[t].forecast_months))
    /\ IF Hit(fcCache, ForecastKey(run[t].series, run[t].forecast_months))
       THEN /\ Goto(t, "cached", [run[t] EXCEPT !.hit = TRUE])
            /\ UNCHANGED fitLog
       ELSE /\ MayFit(fitLog, <<run[t].series.data, run[t].forecast_months>>)
            /\ Goto(t, "fitting", run[t])
            /\ fitLog' = Count(fitLog, <<run[t].series.data, run[t].forecast_months>>)
    /\ UNCHANGED <<files, writes, dataCache, fcCache, widgets, page, cur,
                   left>>

\* line 180: the spinner's closing call, then the assignment of the pair the
\* call returned
Assign(t, result) ==
    IF Cut(t) THEN Interrupted(t)
    ELSE Goto(t, Deliver(run[t], result).pc, Deliver(run[t], result).run)
Return(t) ==
    /\ pc[t] = "returned"
    /\ Assign(t, Cached(fcCache, ForecastKey(run[t].series, run[t].forecast_months)))
    /\ UNCHANGED <<files, writes, dataCache, fcCache, widgets, page, cur,
                   fitLog, left>>

\* lines 182-184: no model, the warning and st.stop()
Warning(t) ==
    /\ pc[t] = "warning"
    /\ Show(t, "warning: model gagal dibuat", "stopped")
    /\ IF Cut(t) THEN UNCHANGED page ELSE Finish(t[1], run[t].ui)
    /\ UNCHANGED <<files, writes, dataCache, fcCache, widgets, cur, fitLog,
                   left>>

\* lines 187-204: the plot of the history and the forecast
Plot(t) ==
    /\ pc[t] = "plot"
    /\ Show(t, "plot", "table")
    /\ UNCHANGED <<files, writes, dataCache, fcCache, widgets, page, cur,
                   fitLog, left>>

\* lines 207-214: the forecast table
Table(t) ==
    /\ pc[t] = "table"
    /\ Show(t, "table", "download")
    /\ UNCHANGED <<files, writes, dataCache, fcCache, widgets, page, cur,
                   fitLog, left>>

\* lines 217-223: the CSV download button ends the script
Download(t) ==
    /\ pc[t] = "download"
    /\ Show(t, "download", "done")
    /\ IF Cut(t) THEN UNCHANGED page
       ELSE Finish(t[1], run[t].ui \cup {"download"})
    /\ UNCHANGED <<files, writes, dataCache, fcCache, widgets, cur, fitLog,
                   left>>

\* the next call of run t, or the end of its engine body
Step(t) ==
    \/ Sidebar(t)
    \/ Load(t)
    \/ Loading(t)
    \/ Loaded(t)
    \/ Check(t)
    \/ Button(t)
    \/ Info(t)
    \/ Engine(t)
    \/ Served(t)
    \/ FitEnd(t)
    \/ FitWait(t)
    \/ Return(t)
    \/ Warning(t)
    \/ Plot(t)
    \/ Table(t)
    \/ Download(t)

\* the data file of a category is replaced on disk
WriteFile(p, f) ==
    /\ writes < MaxWrites
    /\ f # files[p]
    /\ files' = [files EXCEPT ![p] = f]
    /\ writes' = writes + 1
    /\ UNCHANGED <<dataCache, fcCache, widgets, page, cur, pc, run, fitLog,
                   left>>

\* what the user of session s does
User(s) ==
    \/ Open(s)
    \/ ClickButton(s)
    \/ ClickDownload(s)

Next ==
    \/ User("s1")
    \/ \E h \in Horizons : SetHorizon("s1", h)
    \/ \E k \in 1..MaxRuns : Step(<<"s1", k>>)

Spec == Init /\ [][Next]_vars

\* two browser sessions that share the caches
FullLen == 2 * Period
SharedFiles ==
    {MissingFile,
     DataFile(StdHeader, FullLen, 0, "bump", 1),
     DataFile(<<"Bulan", "Penjualan">>, FullLen, 0, "none", 0)}
SharedHorizons == {DefaultHorizon, MaxHorizon}
\* the categories whose data file is rewritten
RewrittenCategories == {DefaultCategory, "Kaos Panjang Dewasa"}

\* two histories the engine fits, and one with a zero that it rejects
SharedStart ==
    files = [p \in Paths |->
                  IF p = FILE_MAP["Kaos Panjang Dewasa"]
                  THEN DataFile(StdHeader, FullLen, 0, "bump", FullLen)
                  ELSE IF p = FILE_MAP["Kaos T-Shirt Anak"]
                  THEN DataFile(StdHeader, FullLen, 0, "zero", FullLen)
                  ELSE DataFile(StdHeader, FullLen, 0, "none", 0)]
InitShared == SharedStart /\ InitCommon(MaxSharedRequests)

\* the user of s1 moves the slider, the user of s2 picks categories, and both
\* press the buttons
NextShared ==
    \/ \E h \in SharedHorizons : SetHorizon("s1", h)
    \/ \E c \in Categories : SelectCategory("s2", c)
    \/ \E s \in Sessions : User(s)
    \/ \E t \in Runs : Step(t)

SpecShared == InitShared /\ [][NextShared]_vars

\* one browser session while the data files are rewritten
NextReload ==
    \/ User("s1")
    \/ \E c \in Categories : SelectCategory("s1", c)
    \/ \E h \in SharedHorizons : SetHorizon("s1", h)
    \/ \E k \in 1..MaxRuns : Step(<<"s1", k>>)
    \/ \E c \in RewrittenCategories, f \in SharedFiles : WriteFile(FILE_MAP[c], f)

InitReload == SharedStart /\ InitCommon(MaxRequests)
SpecReload == InitReload /\ [][NextReload]_vars

\* ----------------------------------------------------------------- claims
Outputs == {"plot", "table", "download"}
\* the elements of the page that are not messages
Elements == {"sidebar", "tabs", "button", "info"} \cup Outputs
CyclesError == FatalError("Cannot compute initial seasonals")
PositiveError == FatalError("endog must be strictly positive")
\* the script of run t is at or past the engine call
AtEngine(t) ==
    pc[t] \in {"engine", "cached", "fitting", "waiting", "returned", "warning",
              "plot", "table", "download"}

\* C1: a run of the engine that returned a model, on a series of at least 24
\* points and a horizon in 1..36, returned a forecast of exactly that many
\* entries, whose timestamps are the consecutive month starts that follow the
\* last timestamp of the series.
C1_ForecastFollowsHistory ==
    \A t \in Runs :
        (/\ run[t].invoked
         /\ run[t].model_fit # None
         /\ Nobs(run[t].series) >= 2 * Period
         /\ run[t].forecast_months \in MinHorizon..MaxHorizon)
        => /\ run[t].forecast # None
           /\ IF run[t].forecast = None THEN FALSE
              ELSE /\ Len(run[t].forecast.val) = run[t].forecast_months
                   /\ \A h \in 1..Len(run[t].forecast.val) :
                        /\ run[t].forecast.val[h].idx.d = 1
                        /\ run[t].forecast.val[h].idx.m =
                             run[t].series.data[Nobs(run[t].series)].idx.m + h

C1_Witness ==
    \E t \in Runs :
        /\ pc[t] = "done"
        /\ run[t].invoked
        /\ run[t].model_fit # None
        /\ run[t].forecast_months = MaxHorizon
        /\ Nobs(run[t].series) > 2 * Period

\* C2: no (series content, horizon) pair is ever fitted twice; every request
\* whose engine call returned holds the one pair stored for its key; and a fit
\* ran on exactly the content of every request that reached the engine, so
\* that a series that differs from the earlier ones in one value was fitted
\* anew.
C2_CacheServesFirstFit ==
    /\ \A a \in DOMAIN fitLog : fitLog[a] = 1
    /\ \A e1, e2 \in fcCache : e1.key = e2.key => e1 = e2
    /\ \A t \in Runs :
          run[t].invoked =>
            /\ Logged(fitLog, <<run[t].series.data, run[t].forecast_months>>) = 1
            /\ pc[t] \in {"done", "stopped"} =>
                 [key |-> <<[size |-> Len(run[t].series.data),
                             rows |-> run[t].series.data],
                            run[t].forecast_months>>,
                  val |-> [model_fit |-> run[t].model_fit,
                           forecast |-> run[t].forecast,
                           msgs |-> IF run[t].model_fit = None
                                    THEN run[t].ui \cap {CyclesError, PositiveError}
                                    ELSE {}]] \in fcCache

\* C3: in a run that has called the engine, either a model and a complete
\* forecast (exactly horizon entries, every value finite) are there, or
\* neither is and no plot, table or download was produced.
C3_NoPartialForecast ==
    \A t \in Runs :
        run[t].invoked =>
          \/ /\ run[t].model_fit # None
             /\ IF run[t].forecast = None THEN FALSE
                ELSE /\ Len(run[t].forecast.val) = run[t].forecast_months
                     /\ \A h \in 1..Len(run[t].forecast.val) :
                          IsFinite(run[t].forecast.val[h].v)
          \/ /\ run[t].model_fit = None
             /\ run[t].forecast = None
             /\ run[t].ui \cap Outputs = {}

\* C4: a series of fewer than 24 observations is rejected with the
\* error of too little data, and neither model nor forecast is produced.
C4_ShortSeriesInsufficientData ==
    \A t \in Runs :
        (run[t].invoked /\ pc[t] = "stopped" /\ Nobs(run[t].series) < 2 * Period) =>
          /\ run[t].model_fit = None
          /\ run[t].forecast = None
          /\ CyclesError \in run[t].ui

\* C5: a run whose data file has no date-like column ends as a load failure:
\* the load returns, the failure is reported and the run stops.
C5_NoDateColumnIsLoadFailure ==
    \A t \in Runs :
        (/\ pc[t] \in {"done", "stopped", "crashed"}
         /\ run[t].disk.state = "ok"
         /\ \A j \in 1..Len(run[t].disk.header) :
               run[t].disk.header[j] \notin {"Date", "Order Date"})
        => /\ run[t].load = "returned"
           /\ pc[t] = "stopped"
           /\ "error: data historis kosong" \in run[t].ui

\* run t has loaded a data file that has a date and a value column and
\* no numeric value at all
AllValuesText(t) ==
    /\ run[t].load # ""
    /\ run[t].disk.state = "ok"
    /\ run[t].disk.header = StdHeader
    /\ run[t].disk.defect = "alltext"

\* C6: when no value is numeric the load fails, and not as a
\* missing or unreadable file does.
C6_AllTextIsEmptySeriesError ==
    \A t \in Runs :
        AllValuesText(t) =>
          /\ "sidebar.success: berhasil dimuat" \notin run[t].ui
          /\ \/ run[t].load = "raised"
             \/ \E m \in run[t].ui \ Elements :
                  m \notin {"error: TIDAK DITEMUKAN", "error: memuat data",
                            "error: data historis kosong"}

\* the timestamps of data are consecutive month starts
MonthlyIndex(data) ==
    \A i \in 1..Len(data) :
        /\ data[i].idx.d = 1
        /\ i > 1 => data[i].idx.m = data[i - 1].idx.m + 1

\* C7 as stated: a returned series has consecutive month-start timestamps
\* and no missing value.
C7_LoadedSeriesIsClean ==
    \A t \in Runs :
        run[t].load = "returned" =>
          /\ MonthlyIndex(run[t].series.data)
          /\ \A i \in 1..Nobs(run[t].series) : run[t].series.data[i].v.cls # "nan"

\* C7 as the code has it: a returned series has consecutive month-start
\* timestamps; at each of them it holds the value of the file's row of that
\* date when that value is numeric, and a missing value otherwise.
C7_LoadedSeriesIsMonthlyWithGaps ==
    \A t \in Runs :
        run[t].load = "returned" =>
          /\ MonthlyIndex(run[t].series.data)
          /\ LET rows == Rows(run[t].disk)
                 At(i) == {j \in 1..Len(rows) :
                             rows[j].date = run[t].series.data[i].idx
                             /\ rows[j].cell.numeric}
             IN  \A i \in 1..Nobs(run[t].series) :
                    IF At(i) = {} THEN run[t].series.data[i].v.cls = "nan"
                    ELSE \A j \in At(i) :
                            run[t].series.data[i].v = rows[j].cell.val

C7_Witness ==
    \E t \in Runs :
        /\ run[t].load = "returned"
        /\ Nobs(run[t].series) = MaxLen
        /\ \E i \in 2..(MaxLen - 1) : run[t].series.data[i].v.cls = "nan"

\* C8: the series of a run is the normalization of the content its
\* data file has at that run.
C8_LoadReflectsCurrentFile ==
    \A t \in Runs :
        run[t].load # "" =>
          /\ run[t].load =
               load_and_preprocess_data(run[t].disk, run[t].selected_category).status
          /\ run[t].series =
               load_and_preprocess_data(run[t].disk, run[t].selected_category).series

\* C9: the engine is called only in a run whose load returned a non-empty
\* series and whose button fired; a run with an empty series never reaches
\* the button or the engine and ends stopped, crashed or cut short; a run
\* without a model shows no plot, table or download.
C9_RunGuards ==
    \A t \in Runs :
        /\ (run[t].invoked \/ AtEngine(t)) =>
              /\ run[t].load = "returned"
              /\ run[t].series.data # <<>>
              /\ run[t].button
        /\ run[t].series.data = <<>> =>
              /\ pc[t] \in {"new", "start", "load", "loading", "loaded", "check",
                            "stopped", "crashed", "over"}
              /\ run[t].ui \cap (Elements \ {"sidebar"}) = {}
              /\ ~run[t].invoked
              /\ run[t].model_fit = None
        /\ run[t].model_fit = None => run[t].ui \cap Outputs = {}
        /\ run[t].ui \cap Outputs # {} => run[t].invoked

C9_Witness ==
    \E t \in Runs :
        /\ pc[t] = "stopped"
        /\ run[t].invoked
        /\ run[t].model_fit = None
        /\ "warning: model gagal dibuat" \in run[t].ui

\* C10: the pair a request holds after its engine call is the one computed
\* from that request's own series and horizon, whatever fits of other keys
\* were in flight, whatever stale runs of its session stored after the request
\* had changed, and whether the pair was computed by the request itself,
\* waited for or served from the cache; and the cache holds one pair per key.
C10_DeliveredMatchesRequest ==
    /\ \A e1, e2 \in fcCache : e1.key = e2.key => e1.val = e2.val
    /\ \A t \in Runs :
          run[t].invoked =>
            /\ pc[t] \in {"warning", "plot", "table", "download", "done", "stopped"} =>
                 /\ run[t].model_fit =
                      TryFit(run[t].series, run[t].forecast_months,
                             ExponentialSmoothing(run[t].series)).model_fit
                 /\ run[t].forecast =
                      TryFit(run[t].series, run[t].forecast_months,
                             ExponentialSmoothing(run[t].series)).forecast
            /\ run[t].model_fit # None =>
                 /\ run[t].model_fit =
                      TryFit(run[t].series, run[t].forecast_months,
                             ExponentialSmoothing(run[t].series)).model_fit
                 /\ run[t].forecast =
                      TryFit(run[t].series, run[t].forecast_months,
                             ExponentialSmoothing(run[t].series)).forecast

\* the horizon changed while the fit of an earlier request of the session was
\* in flight: the later request holds its own pair while the earlier, stale
\* fit still runs
C10_Witness ==
    \E s \in Sessions, j, k \in 1..MaxRuns :
        /\ j < k
        /\ pc[<<s, j>>] = "fitting"
        /\ pc[<<s, k>>] = "done"
        /\ run[<<s, k>>].invoked
        /\ ~run[<<s, k>>].hit
        /\ run[<<s, k>>].model_fit # None
        /\ run[<<s, k>>].series = run[<<s, j>>].series
        /\ run[<<s, k>>].forecast_months # run[<<s, j>>].forecast_months

====
